---- MODULE Spec2Model ----
(***************************************************************************)
(* A model of the sleep-export pipeline:                                   *)
(*   step-1-clean.py    clean_sleep_data  (line scan, row normalisation,   *)
(*                      interchange file)                                  *)
(*   step-2-analyze.py  load_sleep_data, create_analysis_dataframe         *)
(*                                                                         *)
(* Representation.                                                         *)
(*  - A Python float is an exact rational [n, d] in lowest terms (d > 0);  *)
(*    rounding of binary floating point is not modelled.                   *)
(*  - None is the empty tuple <<>>; a present value x is <<x>>.            *)
(*  - A string that the code splits on "-" is the sequence of its          *)
(*    hyphen-free segments ("HR-10-65" is <<"HR","10","65">>); a string    *)
(*    without a hyphen is a one-element sequence.                          *)
(*  - float(s) and strptime(s) are tables over the strings of the inputs.  *)
(***************************************************************************)
EXTENDS Integers, Sequences, FiniteSets, TLC

VARIABLES
    \* ---- step-2-analyze.py: create_analysis_dataframe
    records,          \* the argument: a sequence of CanonicalRecords
    pc,               \* position in create_analysis_dataframe
    rec_i,            \* index of `record` in the for loop of line 49
    ev_i,             \* index of `event` in the for loop of line 58
    interruptions,    \* line 55
    current_awake,    \* line 56: None or seconds
    data,             \* line 47: the rows appended so far
    df,               \* line 104: None or the returned table
    raised,           \* "" or the name of the exception that propagated
    \* ---- step-1-clean.py: clean_sleep_data
    lines,            \* line 11: the lines of the export
    clean_pc,         \* position in clean_sleep_data, then in load_sleep_data
    line_i,           \* index of `line` in the for loop of line 19
    current_header,   \* line 16: None or the last header line, stripped
    cleaned_records,  \* line 14
    pairs,            \* history: the (header, data) texts handed to pd.read_csv
    warnings,         \* the event strings printed by line 94
    output_file,      \* None, or the record array written by line 110
    clean_raised,     \* "" or the name of the exception that propagated
    \* ---- step-2-analyze.py: load_sleep_data
    start_date,       \* the --start-date option: None or a naive datetime
    loaded            \* None or the list load_sleep_data returned

avars == <<records, pc, rec_i, ev_i, interruptions, current_awake, data, df, raised>>

cvars == <<lines, clean_pc, line_i, current_header, cleaned_records, pairs, warnings,
           output_file, clean_raised, start_date, loaded>>

vars == <<avars, cvars>>

\* ------------------------------------------------------------------ bounds
MaxRecords == 2
MaxEvents == 3
MaxLines == 4

\* ------------------------------------------------------------ Python values
None == <<>>
Some(x) == <<x>>
IsNone(x) == x = <<>>
Val(x) == x[1]

Abs(n) == IF n < 0 THEN -n ELSE n

RECURSIVE GCD(_, _)
GCD(a, b) == IF b = 0 THEN a ELSE GCD(b, a % b)

\* the rational n/d in lowest terms, d > 0
Rat(n, d) == LET g == GCD(Abs(n), d) IN [n |-> n \div g, d |-> d \div g]
RInt(k) == [n |-> k, d |-> 1]
RAdd(x, y) == Rat(x.n * y.d + y.n * x.d, x.d * y.d)
RSub(x, y) == Rat(x.n * y.d - y.n * x.d, x.d * y.d)
RMul(x, y) == Rat(x.n * y.n, x.d * y.d)
RDivInt(x, k) == Rat(x.n, x.d * k)
RGeqZero(x) == x.n >= 0
RIsZero(x) == x.n = 0

RECURSIVE RSum(_)
RSum(s) == IF s = <<>> THEN RInt(0) ELSE RAdd(Head(s), RSum(Tail(s)))

\* float(s) for the numeric strings of the inputs; any other string raises ValueError
FloatTable ==
    [s \in {"0", "7", "120000", "1800000", "3600000", "0.25", "1.0", "4.0", "8.0"} |->
        CASE s = "0" -> RInt(0)
          [] s = "0.25" -> Rat(1, 4)
          [] s = "1.0" -> RInt(1)
          [] s = "4.0" -> RInt(4)
          [] s = "8.0" -> RInt(8)
          [] s = "7" -> RInt(7)
          [] s = "120000" -> RInt(120000)
          [] s = "1800000" -> RInt(1800000)
          [] s = "3600000" -> RInt(3600000)]

\* float(x) of a string x given by its hyphen segments: digits, or a leading
\* hyphen (an empty first segment) and digits; a string holding a hyphen
\* between digits is no number
IsFloat(segs) ==
    \/ Len(segs) = 1 /\ segs[1] \in DOMAIN FloatTable
    \/ Len(segs) = 2 /\ segs[1] = "" /\ segs[2] \in DOMAIN FloatTable
Float(segs) ==
    IF Len(segs) = 1 THEN FloatTable[segs[1]]
    ELSE RSub(RInt(0), FloatTable[segs[2]])

\* ------------------------------------------------------------- datetimes
\* A datetime is [day, minute, utcoffset]: the calendar day (a day number), the
\* minute of that day, and None (naive) or the UTC offset in minutes (aware).
\* An ISO string with an offset, "2024-03-02T23:00:00-08:00", reads back as the
\* aware datetime it was written from.
DateTime(day, minute, off) == [day |-> day, minute |-> minute, utcoffset |-> off]
IsAware(t) == ~IsNone(t.utcoffset)

\* ============================================================================
\* step-2-analyze.py: create_analysis_dataframe
\* ============================================================================

\* current_awake as a Python condition: None and 0.0 are both false
Truthy(x) == ~IsNone(x) /\ ~RIsZero(Val(x))

\* float(event["timestamp"].split("-")[0]) / 1000
FirstSegmentSeconds(event) == RDivInt(Float(<<event.timestamp[1]>>), 1000)
FirstSegmentIsFloat(event) == IsFloat(<<event.timestamp[1]>>)

\* the condition of the elif of line 61
AwakeEndTaken(event, awake) == event.type = "AWAKE_END" /\ Truthy(awake)

\* lines 62-63: duration in minutes
AwakeDuration(event, awake) ==
    RDivInt(RSub(RDivInt(Float(event.timestamp), 1000), Val(awake)), 60)

\* lines 68-70
IsRemEvent(e) == e.type \in {"REM_START", "REM_END"}
RemEvents(events) == SelectSeq(events, IsRemEvent)

\* RemLoop stepping by one instead of two: every adjacent pair is summed
RECURSIVE RemLoopSliding(_, _, _)
RemLoopSliding(rem_events, i, rem_time) ==
    IF i > Len(rem_events) THEN rem_time
    ELSE IF i + 1 <= Len(rem_events)
         THEN LET start == FirstSegmentSeconds(rem_events[i])
                  end == FirstSegmentSeconds(rem_events[i + 1])
              IN RemLoopSliding(rem_events, i + 1,
                                RAdd(rem_time, RDivInt(RSub(end, start), 3600)))
         ELSE RemLoopSliding(rem_events, i + 1, rem_time)

\* lines 71-76: the loop over range(0, len(rem_events), 2), from 1-based index i
RECURSIVE RemLoop(_, _, _)
RemLoop(rem_events, i, rem_time) ==
    IF i > Len(rem_events) THEN rem_time
    ELSE IF i + 1 <= Len(rem_events)
         THEN LET start == FirstSegmentSeconds(rem_events[i])
                  end == FirstSegmentSeconds(rem_events[i + 1])
              IN RemLoop(rem_events, i + 2,
                         RAdd(rem_time, RDivInt(RSub(end, start), 3600)))
         ELSE RemLoop(rem_events, i + 2, rem_time)

RemTime(events) == RemLoop(RemEvents(events), 1, RInt(0))

\* float() of a REM timestamp raises ValueError only for a paired event
RemFails(events) ==
    LET r == RemEvents(events)
    IN \E i \in 1..Len(r) :
          /\ ~FirstSegmentIsFloat(r[i])
          /\ (IF i % 2 = 1 THEN i + 1 <= Len(r) ELSE TRUE)

\* record["deep_sleep"] >= 0 (lines 86, 94): None >= 0 raises TypeError
DeepSleepValid(record) == RGeqZero(Val(record.deep_sleep))

\* lines 84-88
DeepSleepHours(record) ==
    IF DeepSleepValid(record)
    THEN Some(RMul(Val(record.deep_sleep), Val(record.hours)))
    ELSE None

\* LightSleepHours without the REM term
LightSleepHoursNoRem(record, rem_time) ==
    IF DeepSleepValid(record)
    THEN Some(RSub(Val(record.hours),
                   RMul(Val(record.deep_sleep), Val(record.hours))))
    ELSE None

\* lines 90-96
LightSleepHours(record, rem_time) ==
    IF DeepSleepValid(record)
    THEN Some(RSub(RSub(Val(record.hours),
                        RMul(Val(record.deep_sleep), Val(record.hours))),
                   rem_time))
    ELSE None

\* the dict literal of lines 79-101 raises TypeError when deep_sleep is None
\* (None >= 0) or when it is >= 0 and hours is None (float * None)
RowRaisesTypeError(record) ==
    \/ IsNone(record.deep_sleep)
    \/ (DeepSleepValid(record) /\ IsNone(record.hours))

\* line 98
AvgInterruption(ints) ==
    IF ints # <<>> THEN RDivInt(RSum(ints), Len(ints)) ELSE RInt(0)

\* lines 79-101 (day_of_week and is_weekend, calendar arithmetic, left out)
MakeRow(record, ints) ==
    LET rem_time == RemTime(record.events)
    IN [date |-> record.from_time.day,
        sleep_time |-> record.from_time.minute,
        wake_time |-> record.to_time.minute,
        hours |-> record.hours,
        deep_sleep_hours |-> DeepSleepHours(record),
        rem_sleep_hours |-> rem_time,
        light_sleep_hours |-> LightSleepHours(record, rem_time),
        interruption_count |-> Len(ints),
        avg_interruption_mins |-> AvgInterruption(ints)]

\* data.append(row), line 78
AppendData(d, row) == Append(d, row)

Record == records[rec_i]
Event == Record.events[ev_i]

Raise(exc) ==
    /\ raised' = exc
    /\ pc' = "raised"

\* lines 49-56: the next record; the per-record scan state is reset
ForRecord ==
    /\ UNCHANGED cvars
    /\ pc = "for_record"
    /\ rec_i <= Len(records)
    /\ interruptions' = <<>>
    /\ current_awake' = None
    /\ ev_i' = 1
    /\ pc' = "for_event"
    /\ UNCHANGED <<records, rec_i, data, df, raised>>

\* lines 59-60
AwakeStart ==
    /\ UNCHANGED cvars
    /\ pc = "for_event"
    /\ ev_i <= Len(Record.events)
    /\ Event.type = "AWAKE_START"
    /\ IF FirstSegmentIsFloat(Event)
       THEN /\ current_awake' = Some(FirstSegmentSeconds(Event))
            /\ ev_i' = ev_i + 1
            /\ UNCHANGED <<pc, raised>>
       ELSE /\ Raise("ValueError")
            /\ UNCHANGED <<current_awake, ev_i>>
    /\ UNCHANGED <<records, rec_i, interruptions, data, df>>

\* AwakeEnd without line 65: the marker stays open after an interval is closed
AwakeEndKeepsMarker ==
    /\ UNCHANGED cvars
    /\ pc = "for_event"
    /\ ev_i <= Len(Record.events)
    /\ Event.type # "AWAKE_START"
    /\ AwakeEndTaken(Event, current_awake)
    /\ IF IsFloat(Event.timestamp)
       THEN /\ interruptions' = Append(interruptions, AwakeDuration(Event, current_awake))
            /\ ev_i' = ev_i + 1
            /\ UNCHANGED <<pc, raised, current_awake>>
       ELSE /\ Raise("ValueError")
            /\ UNCHANGED <<interruptions, current_awake, ev_i>>
    /\ UNCHANGED <<records, rec_i, data, df>>

\* lines 61-65; float(event["timestamp"]) takes the whole payload
AwakeEnd ==
    /\ UNCHANGED cvars
    /\ pc = "for_event"
    /\ ev_i <= Len(Record.events)
    /\ Event.type # "AWAKE_START"
    /\ AwakeEndTaken(Event, current_awake)
    /\ IF IsFloat(Event.timestamp)
       THEN /\ interruptions' = Append(interruptions, AwakeDuration(Event, current_awake))
            /\ current_awake' = None
            /\ ev_i' = ev_i + 1
            /\ UNCHANGED <<pc, raised>>
       ELSE /\ Raise("ValueError")
            /\ UNCHANGED <<interruptions, current_awake, ev_i>>
    /\ UNCHANGED <<records, rec_i, data, df>>

\* neither branch of lines 59-65 is taken
OtherEvent ==
    /\ UNCHANGED cvars
    /\ pc = "for_event"
    /\ ev_i <= Len(Record.events)
    /\ Event.type # "AWAKE_START"
    /\ ~AwakeEndTaken(Event, current_awake)
    /\ ev_i' = ev_i + 1
    /\ UNCHANGED <<records, pc, rec_i, interruptions, current_awake, data, df, raised>>

\* lines 67-102: REM time, then the row is appended
AppendRow ==
    /\ UNCHANGED cvars
    /\ pc = "for_event"
    /\ ev_i > Len(Record.events)
    /\ IF RemFails(Record.events)
       THEN /\ Raise("ValueError")
            /\ UNCHANGED <<data, rec_i>>
       ELSE IF RowRaisesTypeError(Record)
       THEN /\ Raise("TypeError")
            /\ UNCHANGED <<data, rec_i>>
       ELSE /\ data' = AppendData(data, MakeRow(Record, interruptions))
            /\ rec_i' = rec_i + 1
            /\ pc' = "for_record"
            /\ UNCHANGED raised
    /\ UNCHANGED <<records, ev_i, interruptions, current_awake, df>>

\* lines 104-106: pd.DataFrame(data) has no columns when data is empty, and
\* set_index("date") then raises KeyError
BuildFrame ==
    /\ UNCHANGED cvars
    /\ pc = "for_record"
    /\ rec_i > Len(records)
    /\ IF data = <<>>
       THEN /\ Raise("KeyError")
            /\ UNCHANGED df
       ELSE /\ df' = Some(data)
            /\ pc' = "returned"
            /\ UNCHANGED raised
    /\ UNCHANGED <<records, rec_i, ev_i, interruptions, current_awake, data>>

NextAnalyze ==
    \/ ForRecord
    \/ AwakeStart
    \/ AwakeEnd
    \/ OtherEvent
    \/ AppendRow
    \/ BuildFrame

\* ---------------------------------------------------- inputs of the analysis
SeqsUpTo(S, k) == UNION {[1..n -> S] : n \in 0..k}

Ev(type, timestamp) == [type |-> type, timestamp |-> timestamp]

\* events as the normalizer writes them: a type and the payload after the first
\* hyphen, which may itself hold further hyphen-separated segments
EventSet ==
    {Ev("AWAKE_START", <<"0">>), Ev("AWAKE_START", <<"120000">>),
     Ev("AWAKE_START", <<"120000", "7">>),
     Ev("AWAKE_END", <<"120000">>), Ev("AWAKE_END", <<"3600000">>),
     Ev("AWAKE_END", <<"3600000", "7">>),
     Ev("REM_START", <<"0">>), Ev("REM_START", <<"3600000">>),
     Ev("REM_END", <<"1800000">>), Ev("REM_END", <<"1800000", "7">>),
     Ev("LIGHT_START", <<"0">>)}

\* from_time and to_time as read back by datetime.fromisoformat: aware, in the
\* target zone (UTC-8)
Night(day) ==
    [from_time |-> DateTime(day, 1380, Some(-480)),
     to_time |-> DateTime(day + 1, 420, Some(-480))]

CanonicalRecord(day, hours, deep_sleep, events) ==
    [from_time |-> Night(day).from_time, to_time |-> Night(day).to_time,
     hours |-> hours, deep_sleep |-> deep_sleep, events |-> events]

\* one record with every event list up to MaxEvents
EventRecordSet ==
    {CanonicalRecord(1, Some(RInt(8)), Some(Rat(1, 4)), evs) :
        evs \in SeqsUpTo(EventSet, MaxEvents)}

\* records that differ in the scalar fields
RowRecordSet ==
    {CanonicalRecord(day, hours, deep, evs) :
        day \in {1, 2},
        hours \in {None, Some(RInt(8))},
        deep \in {None, Some(RInt(-1)), Some(RInt(0)), Some(Rat(1, 4))},
        evs \in {<<>>, <<Ev("REM_START", <<"0">>), Ev("REM_END", <<"3600000">>)>>}}

InitAnalyze ==
    /\ records \in {<<r>> : r \in EventRecordSet} \cup SeqsUpTo(RowRecordSet, MaxRecords)
    /\ pc = "for_record"
    /\ rec_i = 1
    /\ ev_i = 1
    /\ interruptions = <<>>
    /\ current_awake = None
    /\ data = <<>>
    /\ df = None
    /\ raised = ""
    /\ lines = <<>>
    /\ clean_pc = "idle"
    /\ line_i = 1
    /\ current_header = None
    /\ cleaned_records = <<>>
    /\ pairs = <<>>
    /\ warnings = <<>>
    /\ output_file = None
    /\ clean_raised = ""
    /\ start_date = None
    /\ loaded = None

SpecAnalyze == InitAnalyze /\ [][NextAnalyze]_vars

\* ============================================================================
\* Properties of create_analysis_dataframe
\* ============================================================================

\* the scan stands at an event
AtEvent == pc = "for_event" /\ ev_i <= Len(Record.events)

\* milliseconds of an event: its first hyphen segment read as a number
Ms(e) == FloatTable[e.timestamp[1]].n

\* C1: an AWAKE_END met while a marker is set (an AWAKE_START was seen since the
\* last closed interval), whatever the start timestamp, 0 ms included, appends
\* (end - start) in minutes to the interruption list and clears the marker.
\* Stated for an AWAKE_END whose payload is a plain number.
C1_AwakeEndClosesInterval ==
    [][(/\ AtEvent
        /\ Event.type = "AWAKE_END"
        /\ IsFloat(Event.timestamp)
        /\ ~IsNone(current_awake))
       => (/\ interruptions' =
                Append(interruptions,
                       RDivInt(RSub(Rat(Ms(Event), 1000), Val(current_awake)), 60))
           /\ current_awake' = None)]_vars

\* the rows of records whose deep_sleep is None or negative
AbsentOrNegative(record) ==
    IsNone(record.deep_sleep) \/ Val(record.deep_sleep).n < 0

\* C2: a record whose deep_sleep_ratio is absent or negative yields a row whose
\* deep_sleep_hours and light_sleep_hours are both None while rem_sleep_hours
\* is the value computed from the events, and its derivation does not fail.
C2_AbsentOrNegativeRatioGivesNoValue ==
    \A i \in 1..Len(records) :
        AbsentOrNegative(records[i]) =>
            /\ (i <= Len(data) =>
                   /\ IsNone(data[i].deep_sleep_hours)
                   /\ IsNone(data[i].light_sleep_hours)
                   /\ data[i].rem_sleep_hours = RemTime(records[i].events))
            /\ ~(pc = "raised" /\ rec_i = i)

\* C3: for a record sequence of length n >= 0 the function returns exactly n
\* rows, the i-th derived from the i-th record, and for the empty sequence it
\* returns an empty table rather than failing.
C3_OneRowPerRecord ==
    /\ (pc = "returned" =>
           /\ Len(Val(df)) = Len(records)
           /\ \A i \in 1..Len(records) :
                 /\ Val(df)[i].date = records[i].from_time.day
                 /\ Val(df)[i].hours = records[i].hours
                 /\ Val(df)[i].rem_sleep_hours = RemTime(records[i].events))
    /\ (records = <<>> => pc # "raised")
    /\ (records = <<>> /\ pc = "returned" => df = Some(<<>>))

\* sum over k of (t[2k+1] - t[2k]), 0-based k, for the first k pairs of t
RECURSIVE PairSum(_, _)
PairSum(t, k) ==
    IF k = 0 THEN 0
    ELSE (t[2 * k] - t[2 * k - 1]) + PairSum(t, k - 1)

\* the millisecond timestamps of the REM_START and REM_END events in source order
RemMillis(events) ==
    LET idx == {i \in 1..Len(events) : events[i].type \in {"REM_START", "REM_END"}}
        nth(k) == CHOOSE i \in idx : Cardinality({j \in idx : j < i}) = k - 1
    IN [k \in 1..Cardinality(idx) |-> Ms(events[nth(k)])]

RemHoursByPosition(events) ==
    LET t == RemMillis(events)
    IN Rat(PairSum(t, Len(t) \div 2), 3600000)

\* C4: REM hours are the sum over k of (t[2k+1] - t[2k]) / 3,600,000 where t is
\* the millisecond timestamps (first hyphen segment) of the REM_START and
\* REM_END events in source order, paired by position whatever their types; a
\* last event without a partner contributes nothing.
C4_RemHoursPairedByPosition ==
    \A i \in 1..Len(data) :
        data[i].rem_sleep_hours = RemHoursByPosition(records[i].events)

RemExample ==
    <<Ev("REM_START", <<"0">>), Ev("REM_END", <<"1800000">>),
      Ev("REM_START", <<"3600000">>)>>

\* C4 witness: the row of [REM_START@0, REM_END@1800000, REM_START@3600000]
\* holds 0.5 hours, the third event left out
C4_Witness ==
    /\ Len(data) = 1
    /\ records[1].events = RemExample
    /\ data[1].rem_sleep_hours = Rat(1, 2)

\* C7: a record whose deep_sleep_ratio is present and >= 0 and whose hours is
\* present has deep_sleep_hours = ratio * hours and light_sleep_hours =
\* hours - deep_sleep_hours - rem_sleep_hours, so deep + rem + light = hours.
C7_StageHours ==
    \A i \in 1..Len(data) :
        LET r == records[i]
            row == data[i]
        IN (/\ ~IsNone(r.deep_sleep)
            /\ Val(r.deep_sleep).n >= 0
            /\ ~IsNone(r.hours))
           => /\ ~IsNone(row.deep_sleep_hours)
              /\ ~IsNone(row.light_sleep_hours)
              /\ LET ratio == Val(r.deep_sleep)
                     hours == Val(r.hours)
                     deep == Val(row.deep_sleep_hours)
                     light == Val(row.light_sleep_hours)
                     rem == row.rem_sleep_hours
                 IN /\ deep.n * ratio.d * hours.d = ratio.n * hours.n * deep.d
                    /\ light.n * hours.d * deep.d * rem.d =
                          light.d * (hours.n * deep.d * rem.d - deep.n * hours.d * rem.d
                                     - rem.n * hours.d * deep.d)
                    /\ RAdd(RAdd(deep, rem), light) = hours

\* C7 witness: ratio 0.25, hours 8.0 and REM 1.0 give deep 2.0 and light 5.0
C7_Witness ==
    \E i \in 1..Len(data) :
        /\ records[i].deep_sleep = Some(Rat(1, 4))
        /\ records[i].hours = Some(RInt(8))
        /\ data[i].rem_sleep_hours = RInt(1)
        /\ data[i].deep_sleep_hours = Some(RInt(2))
        /\ data[i].light_sleep_hours = Some(RInt(5))

\* the number of events of a type among the first k events
CountType(events, type, k) == Cardinality({j \in 1..k : events[j].type = type})

\* C8: unmatched awake events contribute nothing: an AWAKE_END met while no
\* marker is open leaves the interruption list and the marker unchanged, an
\* AWAKE_START that no AWAKE_END follows adds no interval, and so the
\* interruption count is at most the number of AWAKE_END events and at most the
\* number of AWAKE_START events.
C8_UnmatchedAwakeEventsIgnored ==
    /\ [](pc = "for_event" =>
            LET evs == Record.events
                open == IF IsNone(current_awake) THEN 0 ELSE 1
            IN /\ Len(interruptions) <= CountType(evs, "AWAKE_END", ev_i - 1)
               /\ Len(interruptions) + open <= CountType(evs, "AWAKE_START", ev_i - 1))
    /\ [](\A i \in 1..Len(data) :
            LET evs == records[i].events
            IN /\ data[i].interruption_count <= CountType(evs, "AWAKE_END", Len(evs))
               /\ data[i].interruption_count <= CountType(evs, "AWAKE_START", Len(evs)))
    /\ [][(AtEvent /\ Event.type = "AWAKE_END" /\ IsNone(current_awake))
          => UNCHANGED <<interruptions, current_awake>>]_vars
    /\ [][(AtEvent /\ Event.type = "AWAKE_START")
          => interruptions' = interruptions]_vars

\* C8 witness: a row whose events hold an AWAKE_END before any AWAKE_START and
\* an AWAKE_START that is never closed, with no interval counted
C8_Witness ==
    \E i \in 1..Len(data) :
        LET evs == records[i].events
        IN /\ Len(evs) >= 2
           /\ evs[1].type = "AWAKE_END"
           /\ evs[Len(evs)].type = "AWAKE_START"
           /\ data[i].interruption_count = 0

\* ============================================================================
\* step-1-clean.py: clean_sleep_data
\* ============================================================================
\* A line of the export is [lead, fields]: whether it starts with white space,
\* and its comma-separated cells; a cell is the sequence of its hyphen-free
\* segments, the empty cell being <<"">>. A blank line has the one cell <<"">>.
\* Quoting, and a data line longer than its header, are not in the inputs.

Line(lead, fields) == [lead |-> lead, fields |-> fields]
EmptyCell == <<"">>

\* line.startswith("Id,"), line 20
StartsWithId(line) ==
    ~line.lead /\ Len(line.fields) >= 2 /\ line.fields[1] = <<"Id">>
\* line.startswith(","), line 23
StartsWithComma(line) ==
    ~line.lead /\ Len(line.fields) >= 2 /\ line.fields[1] = EmptyCell
\* line.strip(), lines 22-25: the text without the white space around it
Strip(line) == line.fields
\* a stripped text as a Python condition: the empty string is false
TextTruthy(fields) == fields # <<EmptyCell>>

\* line 23
IsDataLine(line) == TextTruthy(Strip(line)) /\ ~StartsWithComma(line)

\* pd.read_csv of line 29: one row keyed by the header's names; a cell the data
\* line lacks, or an empty one, is NaN (here the empty cell)
ReadCsv(header, row) ==
    [columns |-> header,
     values |-> [p \in 1..Len(header) |->
                    IF p <= Len(row) THEN row[p] ELSE EmptyCell]]

\* pd.notnull(df[col].iloc[0])
NotNull(cell) == cell # EmptyCell

HasColumn(frame, name) == \E p \in 1..Len(frame.columns) : frame.columns[p] = <<name>>
ColumnOf(frame, name) ==
    CHOOSE p \in 1..Len(frame.columns) :
        /\ frame.columns[p] = <<name>>
        /\ \A q \in 1..(p - 1) : frame.columns[q] # <<name>>
\* df[name].iloc[0]
Cell(frame, name) == frame.values[ColumnOf(frame, name)]

\* pytz.timezone(name): the UTC offset, in minutes, of the zones of the inputs
\* (their winter offsets; the inputs hold January dates)
ZoneTable ==
    [z \in {"America/Los_Angeles", "Europe/Berlin"} |->
        IF z = "Europe/Berlin" THEN 60 ELSE -480]
IsZone(cell) == Len(cell) = 1 /\ cell[1] \in DOMAIN ZoneTable

\* datetime.strptime(s, "%d. %m. %Y %H:%M") for the timestamps of the inputs:
\* day of January 2024 and minute of the day
TimeTable ==
    [s \in {"02. 01. 2024 23:00", "03. 01. 2024 07:00", "03. 01. 2024 23:30",
            "04. 01. 2024 06:30"} |->
        CASE s = "02. 01. 2024 23:00" -> DateTime(2, 1380, None)
          [] s = "03. 01. 2024 07:00" -> DateTime(3, 420, None)
          [] s = "03. 01. 2024 23:30" -> DateTime(3, 1410, None)
          [] s = "04. 01. 2024 06:30" -> DateTime(4, 390, None)]
IsTime(cell) == Len(cell) = 1 /\ cell[1] \in DOMAIN TimeTable

\* minutes since the start of day 0, UTC, of an aware datetime
Instant(t) == t.day * 1440 + t.minute - Val(t.utcoffset)

\* tz.localize(t).astimezone(pst), lines 38, 41, 44; isoformat() keeps the
\* local date and time and the offset
ToTargetZone(cell, zone) ==
    LET t == TimeTable[cell[1]]
        utc == t.day * 1440 + t.minute - ZoneTable[zone[1]]
        local == utc + ZoneTable["America/Los_Angeles"]
    IN DateTime(local \div 1440, local % 1440, Some(ZoneTable["America/Los_Angeles"]))

\* lines 51-70: float(x) if pd.notnull(x) else None
Scalar(cell) == IF NotNull(cell) THEN Some(Float(cell)) ELSE None

\* names of columns: ":" in str(col), line 77; str(col).startswith("Event"),
\* line 84 (pandas renames a repeated "Event" to "Event.1", "Event.2", ...)
HasColon(name) == name \in {<<"23:30">>, <<"23:40">>}
StartsWithEvent(name) == name \in {<<"Event">>}

RECURSIVE TimeSeriesFrom(_, _)
\* lines 75-79, from column p on: the (column, reading) entries in column order
TimeSeriesFrom(frame, p) ==
    IF p > Len(frame.columns) THEN <<>>
    ELSE IF HasColon(frame.columns[p]) /\ NotNull(frame.values[p])
         THEN <<[key |-> frame.columns[p], value |-> Float(frame.values[p])]>>
              \o TimeSeriesFrom(frame, p + 1)
         ELSE TimeSeriesFrom(frame, p + 1)

\* event_str.split("-", 1) gives two parts: the string holds a hyphen
SplitsInTwo(cell) == Len(cell) >= 2

\* ExtractEventsFrom leaving the loop at the first event that does not parse
RECURSIVE ExtractEventsBreak(_, _)
ExtractEventsBreak(frame, p) ==
    IF p > Len(frame.columns) THEN <<>>
    ELSE IF StartsWithEvent(frame.columns[p]) /\ NotNull(frame.values[p])
         THEN IF SplitsInTwo(frame.values[p])
              THEN <<[type |-> Head(frame.values[p]),
                      timestamp |-> Tail(frame.values[p])]>>
                   \o ExtractEventsBreak(frame, p + 1)
              ELSE <<>>
         ELSE ExtractEventsBreak(frame, p + 1)

RECURSIVE ExtractEventsFrom(_, _)
\* lines 82-95, from column p on: the events in column order
ExtractEventsFrom(frame, p) ==
    IF p > Len(frame.columns) THEN <<>>
    ELSE IF StartsWithEvent(frame.columns[p]) /\ NotNull(frame.values[p])
         THEN IF SplitsInTwo(frame.values[p])
              THEN <<[type |-> Head(frame.values[p]),
                      timestamp |-> Tail(frame.values[p])]>>
                   \o ExtractEventsFrom(frame, p + 1)
              ELSE ExtractEventsFrom(frame, p + 1)
         ELSE ExtractEventsFrom(frame, p + 1)

RECURSIVE EventWarningsFrom(_, _)
\* line 94, from column p on: the event strings that are printed
EventWarningsFrom(frame, p) ==
    IF p > Len(frame.columns) THEN <<>>
    ELSE IF /\ StartsWithEvent(frame.columns[p])
            /\ NotNull(frame.values[p])
            /\ ~SplitsInTwo(frame.values[p])
         THEN <<frame.values[p]>> \o EventWarningsFrom(frame, p + 1)
         ELSE EventWarningsFrom(frame, p + 1)

\* the exception lines 33-79 raise for a row, "" when none: in the order the
\* code evaluates them
RowError(frame) ==
    IF \E c \in {"Id", "Tz", "From", "To", "Sched", "Hours", "Rating", "Cycles",
                 "DeepSleep", "Geo"} : ~HasColumn(frame, c)
    THEN "KeyError"
    ELSE IF ~NotNull(Cell(frame, "Tz")) THEN "AttributeError"
    ELSE IF ~IsZone(Cell(frame, "Tz")) THEN "UnknownTimeZoneError"
    ELSE IF \E c \in {"From", "To", "Sched"} : ~NotNull(Cell(frame, c)) THEN "TypeError"
    ELSE IF \E c \in {"From", "To", "Sched"} : ~IsTime(Cell(frame, c)) THEN "ValueError"
    ELSE IF \E c \in {"Hours", "Rating", "Cycles", "DeepSleep"} :
               NotNull(Cell(frame, c)) /\ ~IsFloat(Cell(frame, c))
    THEN "ValueError"
    ELSE IF \E p \in 1..Len(frame.columns) :
               /\ HasColon(frame.columns[p])
               /\ NotNull(frame.values[p])
               /\ ~IsFloat(frame.values[p])
    THEN "ValueError"
    ELSE ""

\* lines 46-98: the record of a row that raises nothing
NormalizeRecord(frame) ==
    [id |-> Cell(frame, "Id"),
     from_time |-> ToTargetZone(Cell(frame, "From"), Cell(frame, "Tz")),
     to_time |-> ToTargetZone(Cell(frame, "To"), Cell(frame, "Tz")),
     scheduled_time |-> ToTargetZone(Cell(frame, "Sched"), Cell(frame, "Tz")),
     hours |-> Scalar(Cell(frame, "Hours")),
     rating |-> Scalar(Cell(frame, "Rating")),
     cycles |-> Scalar(Cell(frame, "Cycles")),
     deep_sleep |-> Scalar(Cell(frame, "DeepSleep")),
     geo |-> Cell(frame, "Geo"),
     time_series |-> TimeSeriesFrom(frame, 1),
     events |-> ExtractEventsFrom(frame, 1)]

CurrentLine == lines[line_i]
Scanning == clean_pc = "scan" /\ line_i <= Len(lines)

\* HeaderLine keeping the first header it met
HeaderLineKeepsFirst ==
    /\ Scanning
    /\ StartsWithId(CurrentLine)
    /\ current_header' = IF IsNone(current_header) THEN Some(Strip(CurrentLine))
                         ELSE current_header
    /\ line_i' = line_i + 1
    /\ UNCHANGED <<lines, clean_pc, cleaned_records, pairs, warnings, output_file,
                   clean_raised, start_date, loaded>>
    /\ UNCHANGED avars

\* lines 20-22
HeaderLine ==
    /\ Scanning
    /\ StartsWithId(CurrentLine)
    /\ current_header' = Some(Strip(CurrentLine))
    /\ line_i' = line_i + 1
    /\ UNCHANGED <<lines, clean_pc, cleaned_records, pairs, warnings, output_file,
                   clean_raised, start_date, loaded>>
    /\ UNCHANGED avars

\* line 23 false: a blank line or a line that starts with ","
SkippedLine ==
    /\ Scanning
    /\ ~StartsWithId(CurrentLine)
    /\ ~IsDataLine(CurrentLine)
    /\ line_i' = line_i + 1
    /\ UNCHANGED <<lines, clean_pc, current_header, cleaned_records, pairs, warnings,
                   output_file, clean_raised, start_date, loaded>>
    /\ UNCHANGED avars

\* the condition of line 27
HeaderAndData ==
    /\ ~IsNone(current_header)
    /\ TextTruthy(Val(current_header))
    /\ TextTruthy(Strip(CurrentLine))

\* lines 23-27 with line 27 false: a data line before any header
DataLineNoHeader ==
    /\ Scanning
    /\ ~StartsWithId(CurrentLine)
    /\ IsDataLine(CurrentLine)
    /\ ~HeaderAndData
    /\ line_i' = line_i + 1
    /\ UNCHANGED <<lines, clean_pc, current_header, cleaned_records, pairs, warnings,
                   output_file, clean_raised, start_date, loaded>>
    /\ UNCHANGED avars

Pair(header, row, at) == [header |-> header, data |-> row, at |-> at]
CurrentFrame == ReadCsv(Val(current_header), Strip(CurrentLine))

\* DataLineRaises skipping the row that does not normalize and going on
DataLineSkipsBadRow ==
    /\ Scanning
    /\ ~StartsWithId(CurrentLine)
    /\ IsDataLine(CurrentLine)
    /\ HeaderAndData
    /\ RowError(CurrentFrame) # ""
    /\ pairs' = Append(pairs, Pair(Val(current_header), Strip(CurrentLine), line_i))
    /\ line_i' = line_i + 1
    /\ UNCHANGED <<lines, current_header, cleaned_records, warnings, output_file,
                   clean_pc, clean_raised, start_date, loaded>>
    /\ UNCHANGED avars

\* lines 23-44 (and 51-79) when the row raises: the exception leaves
\* clean_sleep_data, lines 102-110 are not reached
DataLineRaises ==
    /\ Scanning
    /\ ~StartsWithId(CurrentLine)
    /\ IsDataLine(CurrentLine)
    /\ HeaderAndData
    /\ RowError(CurrentFrame) # ""
    /\ pairs' = Append(pairs, Pair(Val(current_header), Strip(CurrentLine), line_i))
    /\ clean_raised' = RowError(CurrentFrame)
    /\ clean_pc' = "raised"
    /\ UNCHANGED <<lines, line_i, current_header, cleaned_records, warnings, output_file,
                   start_date, loaded>>
    /\ UNCHANGED avars

\* lines 23-100: the row is normalized and its record appended
DataLineRecord ==
    /\ Scanning
    /\ ~StartsWithId(CurrentLine)
    /\ IsDataLine(CurrentLine)
    /\ HeaderAndData
    /\ RowError(CurrentFrame) = ""
    /\ pairs' = Append(pairs, Pair(Val(current_header), Strip(CurrentLine), line_i))
    /\ warnings' = warnings \o EventWarningsFrom(CurrentFrame, 1)
    /\ cleaned_records' = Append(cleaned_records, NormalizeRecord(CurrentFrame))
    /\ line_i' = line_i + 1
    /\ UNCHANGED <<lines, clean_pc, current_header, output_file, clean_raised,
                   start_date, loaded>>
    /\ UNCHANGED avars

\* lines 102-110: the whole array is written after the loop
WriteFile ==
    /\ clean_pc = "scan"
    /\ line_i > Len(lines)
    /\ output_file' = Some(cleaned_records)
    /\ clean_pc' = "written"
    /\ UNCHANGED <<lines, line_i, current_header, cleaned_records, pairs, warnings,
                   clean_raised, start_date, loaded>>
    /\ UNCHANGED avars

\* ============================================================================
\* step-2-analyze.py: load_sleep_data, called by main with --start-date
\* ============================================================================

\* click.DateTime() (lines 413-417) parses the option with strptime: a naive
\* datetime; without the option start_date is None
StartDates == {None, Some(DateTime(2, 0, None)), Some(DateTime(3, 0, None))}

\* datetime.fromisoformat(r["from_time"]) >= start_date raises TypeError when
\* one side is aware and the other naive
CompareRaises(a, b) == IsAware(a) # IsAware(b)

\* what >= compares when it does not raise: instants of two aware datetimes,
\* wall-clock times of two naive ones
Minutes(t) == t.day * 1440 + t.minute - (IF IsAware(t) THEN Val(t.utcoffset) ELSE 0)

\* lines 37-40
FilterFrom(recs, cutoff) ==
    LET Keep(r) == Minutes(r.from_time) >= Minutes(cutoff)
    IN SelectSeq(recs, Keep)

\* lines 34-42, returning
LoadSleepData ==
    /\ clean_pc = "written"
    /\ \E sd \in StartDates :
          /\ start_date' = sd
          /\ IF IsNone(sd)
             THEN loaded' = Some(Val(output_file))
             ELSE /\ \A k \in 1..Len(Val(output_file)) :
                        ~CompareRaises(Val(output_file)[k].from_time, Val(sd))
                  /\ loaded' = Some(FilterFrom(Val(output_file), Val(sd)))
    /\ clean_pc' = "loaded"
    /\ UNCHANGED <<lines, line_i, current_header, cleaned_records, pairs, warnings,
                   output_file, clean_raised>>
    /\ UNCHANGED avars

\* lines 37-40, when the comparison of line 39 raises
LoadSleepDataRaises ==
    /\ clean_pc = "written"
    /\ \E sd \in StartDates :
          /\ ~IsNone(sd)
          /\ \E k \in 1..Len(Val(output_file)) :
                CompareRaises(Val(output_file)[k].from_time, Val(sd))
          /\ start_date' = sd
    /\ clean_raised' = "TypeError"
    /\ clean_pc' = "load_raised"
    /\ UNCHANGED <<lines, line_i, current_header, cleaned_records, pairs, warnings,
                   output_file, loaded>>
    /\ UNCHANGED avars

NextClean ==
    \/ HeaderLine
    \/ SkippedLine
    \/ DataLineNoHeader
    \/ DataLineRaises
    \/ DataLineRecord
    \/ WriteFile
    \/ LoadSleepData
    \/ LoadSleepDataRaises

\* ------------------------------------------------------ inputs of the cleaner
Header1 ==
    Line(FALSE, << <<"Id">>, <<"Tz">>, <<"From">>, <<"To">>, <<"Sched">>, <<"Hours">>,
                   <<"Rating">>, <<"Cycles">>, <<"DeepSleep">>, <<"Geo">>, <<"23:30">>,
                   <<"Event">>, <<"Event">> >>)
\* another revision of the export: Rating before Hours, three Event columns
Header2 ==
    Line(FALSE, << <<"Id">>, <<"Tz">>, <<"From">>, <<"To">>, <<"Sched">>, <<"Rating">>,
                   <<"Hours">>, <<"Cycles">>, <<"DeepSleep">>, <<"Geo">>, <<"Event">>,
                   <<"Event">>, <<"Event">> >>)
\* "1,Europe/Berlin,...,8.0,4.0,4.0,0.25,home,1.0,AWAKE_START-0,AWAKE_END-120000"
DataFull ==
    Line(FALSE, << <<"1">>, <<"Europe/Berlin">>, <<"02. 01. 2024 23:00">>,
                   <<"03. 01. 2024 07:00">>, <<"03. 01. 2024 07:00">>, <<"8.0">>,
                   <<"4.0">>, <<"4.0">>, <<"0.25">>, <<"home">>, <<"1.0">>,
                   <<"AWAKE_START", "0">>, <<"AWAKE_END", "120000">> >>)
\* "2,America/Los_Angeles,...,,,,-1.0,,,BADVALUE,REM_START-0-7"
DataBadEvent ==
    Line(FALSE, << <<"2">>, <<"America/Los_Angeles">>, <<"03. 01. 2024 23:30">>,
                   <<"04. 01. 2024 06:30">>, <<"04. 01. 2024 06:30">>, EmptyCell,
                   EmptyCell, EmptyCell, <<"", "1.0">>, EmptyCell, EmptyCell,
                   <<"BADVALUE">>, <<"REM_START", "0", "7">> >>)
\* "3,Europe/Berlin,2024-01-02 23:00,03. 01. 2024 07:00,03. 01. 2024 07:00"
DataBadTime ==
    Line(FALSE, << <<"3">>, <<"Europe/Berlin">>, <<"2024", "01", "02 23:00">>,
                   <<"03. 01. 2024 07:00">>, <<"03. 01. 2024 07:00">> >>)
\* "4,Mars/Phobos,02. 01. 2024 23:00,03. 01. 2024 07:00,03. 01. 2024 07:00"
DataBadZone ==
    Line(FALSE, << <<"4">>, <<"Mars/Phobos">>, <<"02. 01. 2024 23:00">>,
                   <<"03. 01. 2024 07:00">>, <<"03. 01. 2024 07:00">> >>)
BlankLine == Line(FALSE, <<EmptyCell>>)
\* ",,x"
CommaLine == Line(FALSE, <<EmptyCell, EmptyCell, <<"x">> >>)

\* a header text behind white space: line 20 does not take it for a header
IndentedHeader == Line(TRUE, Header1.fields)

LineSet ==
    {Header1, Header2, DataFull, DataBadEvent, DataBadTime, DataBadZone, BlankLine,
     CommaLine, IndentedHeader}

InitClean ==
    /\ lines \in SeqsUpTo(LineSet, MaxLines)
    /\ clean_pc = "scan"
    /\ line_i = 1
    /\ current_header = None
    /\ cleaned_records = <<>>
    /\ pairs = <<>>
    /\ warnings = <<>>
    /\ output_file = None
    /\ clean_raised = ""
    /\ start_date = None
    /\ loaded = None
    /\ records = <<>>
    /\ pc = "idle"
    /\ rec_i = 1
    /\ ev_i = 1
    /\ interruptions = <<>>
    /\ current_awake = None
    /\ data = <<>>
    /\ df = None
    /\ raised = ""

SpecClean == InitClean /\ [][NextClean]_vars

\* ============================================================================
\* Properties of clean_sleep_data and load_sleep_data
\* ============================================================================

\* the lines the scan has gone past
Scanned == 1..(line_i - 1)
HeaderIndexes == {k \in 1..Len(lines) : StartsWithId(lines[k])}
\* the last header line before line j, 0 when there is none
LastHeaderBefore(j) ==
    IF \E k \in HeaderIndexes : k < j
    THEN CHOOSE k \in HeaderIndexes :
            k < j /\ \A m \in HeaderIndexes : m < j => m <= k
    ELSE 0
\* a data line in the claim's sense
DataShaped(line) ==
    /\ line.fields # <<EmptyCell>>
    /\ ~(~line.lead /\ Len(line.fields) >= 2 /\ line.fields[1] = EmptyCell)
    /\ ~(~line.lead /\ Len(line.fields) >= 2 /\ line.fields[1] = <<"Id">>)
\* the lines that were paired with a header
PairedLines == {pairs[k].at : k \in 1..Len(pairs)}

\* C5: every data line (not blank, not starting with "," or "Id,") that comes
\* after a header line is paired with the most recent header line before it
\* and no other; a data line before every header produces no record and no
\* error, and does not disturb the pairing of later lines; header lines, blank
\* lines and lines starting with "," never produce a record.
C5_DataLinePairedWithLastHeader ==
    /\ \A k \in 1..Len(pairs) :
          LET j == pairs[k].at
          IN /\ j \in 1..Len(lines)
             /\ DataShaped(lines[j])
             /\ LastHeaderBefore(j) # 0
             /\ pairs[k].header = lines[LastHeaderBefore(j)].fields
             /\ pairs[k].data = lines[j].fields
             /\ \A m \in 1..(k - 1) : pairs[m].at < j
    /\ \A j \in Scanned :
          (DataShaped(lines[j]) /\ LastHeaderBefore(j) # 0) <=> j \in PairedLines
    /\ Len(cleaned_records) <= Len(pairs)
    /\ (clean_pc # "raised" => Len(cleaned_records) = Len(pairs))
    /\ (clean_pc = "raised" => line_i \in PairedLines)

\* C5 witness: the export starts with a data line, which is dropped; the data
\* line after the two headers is paired with the second one; the file is written
C5_Witness ==
    /\ clean_pc = "written"
    /\ Len(lines) = 4
    /\ DataShaped(lines[1])
    /\ lines[2] = Header1
    /\ lines[3] = Header2
    /\ lines[4] = DataFull
    /\ Len(pairs) = 1
    /\ pairs[1].header = Header2.fields
    /\ Len(cleaned_records) = 1

\* the positions of the Event columns of a frame that hold a value with no hyphen
BadEventColumns(frame) ==
    {p \in 1..Len(frame.columns) :
        /\ frame.columns[p] = <<"Event">>
        /\ frame.values[p] # EmptyCell
        /\ Len(frame.values[p]) = 1}
\* the positions of the Event columns that hold a value with a hyphen
GoodEventColumns(frame) ==
    {p \in 1..Len(frame.columns) :
        /\ frame.columns[p] = <<"Event">>
        /\ Len(frame.values[p]) >= 2}
\* the frame with the cell of column p absent
Blanked(frame, p) == [frame EXCEPT !.values[p] = EmptyCell]
FrameOf(k) == ReadCsv(pairs[k].header, pairs[k].data)

RECURSIVE WarningCount(_)
WarningCount(k) ==
    IF k = 0 THEN 0 ELSE Cardinality(BadEventColumns(FrameOf(k))) + WarningCount(k - 1)

\* C6: an Event column holding a value with no hyphen gives a warning and
\* omits that one event; the record is still produced, every other event of
\* the row is kept in column order, split on the first hyphen into type and
\* payload, and all other fields are as if that column had been absent.
C6_BadEventDroppedAlone ==
    /\ \A k \in 1..Len(cleaned_records) :
          LET frame == FrameOf(k)
              rec == cleaned_records[k]
              good == GoodEventColumns(frame)
          IN /\ Len(rec.events) = Cardinality(good)
             /\ \A p \in good :
                   LET n == Cardinality({q \in good : q <= p})
                   IN /\ rec.events[n].type = frame.values[p][1]
                      /\ rec.events[n].timestamp = Tail(frame.values[p])
             /\ \A p \in BadEventColumns(frame) :
                   /\ rec = NormalizeRecord(Blanked(frame, p))
                   /\ \E w \in 1..Len(warnings) : warnings[w] = frame.values[p]
    /\ Len(warnings) = WarningCount(Len(cleaned_records))

\* C6 witness: a record made from a row with BADVALUE in one Event column and
\* REM_START-0-7 in the next: one warning, the event after it kept
C6_Witness ==
    \E k \in 1..Len(cleaned_records) :
        /\ pairs[k].header = Header1.fields
        /\ pairs[k].data = DataBadEvent.fields
        /\ cleaned_records[k].events = <<Ev("REM_START", <<"0", "7">>)>>
        /\ warnings = <<<<"BADVALUE">>>>

\* a row whose Tz names no zone, or whose From, To or Sched is not in the format
BadTimeOrZone(frame) ==
    \/ Cell(frame, "Tz") \notin {<<"America/Los_Angeles">>, <<"Europe/Berlin">>}
    \/ \E c \in {"From", "To", "Sched"} :
          Cell(frame, c) \notin {<<t>> : t \in DOMAIN TimeTable}

\* C9: a paired data line whose From, To or Sched does not parse, or whose
\* zone name does not resolve, aborts the whole batch at that line: no later
\* line is processed and the interchange file is not written at all; when no
\* line fails the file is written once, in full, the records in source order.
C9_BadTimestampAbortsBatch ==
    /\ [](\A k \in 1..Len(pairs) :
            BadTimeOrZone(FrameOf(k)) =>
                /\ clean_pc = "raised"
                /\ k = Len(pairs)
                /\ pairs[k].at = line_i
                /\ Len(cleaned_records) = k - 1)
    /\ [](clean_pc = "raised" => IsNone(output_file) /\ IsNone(loaded))
    /\ [](~IsNone(output_file) =>
            /\ line_i = Len(lines) + 1
            /\ Val(output_file) = cleaned_records
            /\ Len(cleaned_records) = Len(pairs)
            /\ \A k \in 1..Len(pairs) :
                  /\ ~BadTimeOrZone(FrameOf(k))
                  /\ cleaned_records[k].id = pairs[k].data[1])
    /\ [](clean_pc = "scan" /\ line_i > Len(lines) => ENABLED WriteFile)
    /\ [][clean_pc # "raised"]_vars
    /\ [][~IsNone(output_file) => output_file' = output_file]_vars

\* C9 witness: the batch aborted at a line with a bad timestamp after a record
\* had been normalized and with a line left unread; nothing was written
C9_Witness ==
    /\ clean_pc = "raised"
    /\ Len(cleaned_records) >= 1
    /\ line_i < Len(lines)
    /\ lines[line_i] = DataBadTime
    /\ IsNone(output_file)

\* the cutoff as an instant: its date and time read in the target zone
CutoffInstant(t) == t.day * 1440 + t.minute - ZoneTable["America/Los_Angeles"]

\* C10: load_sleep_data with a cutoff returns exactly the records of the
\* interchange file whose from_time is at or after the cutoff (one starting at
\* the cutoff is kept), in their order; with no cutoff it returns all records.
C10_LoadFiltersByCutoff ==
    clean_pc \in {"loaded", "load_raised"} =>
        /\ clean_pc = "loaded"
        /\ ~IsNone(loaded)
        /\ LET file == Val(output_file)
               AtOrAfter(r) == Instant(r.from_time) >= CutoffInstant(Val(start_date))
           IN Val(loaded) = IF IsNone(start_date) THEN file
                            ELSE SelectSeq(file, AtOrAfter)

\* the scalar columns and the record field each one fills
ScalarFields ==
    {<<"Hours", "hours">>, <<"Rating", "rating">>, <<"Cycles", "cycles">>,
     <<"DeepSleep", "deep_sleep">>}
FieldOf(rec, f) ==
    CASE f = "hours" -> rec.hours
      [] f = "rating" -> rec.rating
      [] f = "cycles" -> rec.cycles
      [] f = "deep_sleep" -> rec.deep_sleep

\* a scalar cell that is absent in the source row is None in the record, never
\* 0, and a present one is its number
AbsentScalarIsNoValue ==
    \A k \in 1..Len(cleaned_records) :
        \A cf \in ScalarFields :
            LET cell == Cell(FrameOf(k), cf[1])
                field == FieldOf(cleaned_records[k], cf[2])
            IN IF cell = EmptyCell
               THEN field = None /\ field # Some(RInt(0))
               ELSE field = Some(Float(cell))

\* a record whose hours is None (its ratio being present) yields a row, with
\* hours None and no stage figure computed as if hours were 0
NoValueHoursYieldsRow ==
    \A i \in 1..Len(records) :
        (IsNone(records[i].hours) /\ ~IsNone(records[i].deep_sleep)) =>
            /\ ~(pc = "raised" /\ rec_i = i)
            /\ (i <= Len(data) =>
                   /\ IsNone(data[i].hours)
                   /\ data[i].deep_sleep_hours # Some(RInt(0))
                   /\ data[i].light_sleep_hours
                         # Some(RSub(RInt(0), data[i].rem_sleep_hours)))

\* C11: null propagation is no error: a scalar metric (hours, rating, cycles,
\* deep_sleep_ratio) absent in the source row is None in the CanonicalRecord,
\* never 0, and a record whose hours is None still yields an AnalysisRow, with
\* hours None and no stage-hour figure computed as if hours were 0, also when
\* its deep_sleep_ratio is present and non-negative.
C11_NullPropagation == AbsentScalarIsNoValue /\ NoValueHoursYieldsRow

====
